---- MODULE Spec2Model ----
(***************************************************************************)
(* Model of the corner-motor homing controller of firmware/main.py:        *)
(* zero_corner_motors, is_at_peak, pulse_corner_motor and the hall sensor  *)
(* readers.  One call of zero_corner_motors is a sequential program; pc    *)
(* is its position.  The arguments, the ADC values the sensor returns and  *)
(* the time a pulse takes beyond its sleeps are the inputs.                *)
(* The shift register that drives the motors and the multiplexer of the    *)
(* hall sensors are modelled pin by pin; Spec and SpecTriangle take their  *)
(* calls as single steps, SpecShift and SpecHall take them pin by pin.     *)
(***************************************************************************)
EXTENDS Integers, Sequences, FiniteSets, TLC

VARIABLES
    corner_numbers,        \* argument: the corners to zero, in order
    timeout_per_motor_ms,  \* argument
    min_valid_value,       \* argument
    min_sample_count,      \* argument
    wave,                  \* per attempt: how the sensor behaves (environment)
    wavep,                 \* parameters of the triangular waveform (environment)
    call_start,            \* the wall clock at the call of zero_corner_motors
    overhead_ms,           \* time a pulse takes beyond its sleeps (environment)
    pc,                    \* position in zero_corner_motors
    idx,                   \* 1-based index of the for loop over corner_numbers
    now,                   \* wall clock in ms since boot (not wrapped)
    start,                 \* start = time.ticks_ms() of the current attempt
    last_n_measurements,   \* the window of the current attempt
    failed_corners,        \* the failure list
    at_peak,               \* value of the last is_at_peak(...) evaluation
    back,                  \* reverse pulses already issued by the back-off loop
    raised,                \* number of RuntimeErrors raised by the call
    fwd,                   \* history: forward pulses per attempt
    rev,                   \* history: reverse pulses per attempt
    below,                 \* history: samples below min_valid_value per attempt
    outcome,               \* history: "pending" | "homed" | "timedout" per attempt
    inserted,              \* history: valid samples of the current attempt, in order
    read_at,               \* history: the forward step at which each of them was read
    log,                   \* history: the commands and sensor reads of the call
    shiftreg,              \* the shift register, its pins and the call driving it
    hall,                  \* the multiplexer select pins and the read in progress
    drive                  \* drive_motor: its locals and the commands it has sent

vars == <<corner_numbers, timeout_per_motor_ms, min_valid_value, min_sample_count,
          wave, wavep, overhead_ms, pc, idx, now, start, last_n_measurements, failed_corners,
          at_peak, back, raised, fwd, rev, below, outcome, inserted,
          call_start, read_at, log, shiftreg, hall, drive>>

\* the state of zero_corner_motors
zvars == <<corner_numbers, timeout_per_motor_ms, min_valid_value, min_sample_count,
           wave, wavep, overhead_ms, pc, idx, now, start, last_n_measurements,
           failed_corners, at_peak, back, raised, fwd, rev, below, outcome, inserted,
           call_start, read_at, log, drive>>

\* what no step of zero_corner_motors changes: its arguments, the environment
\* and the stepper driver
args == <<corner_numbers, timeout_per_motor_ms, min_valid_value, min_sample_count,
          wave, wavep, overhead_ms, call_start, drive>>

\* everything but the stepper driver
nondrive == <<corner_numbers, timeout_per_motor_ms, min_valid_value, min_sample_count,
              wave, wavep, overhead_ms, pc, idx, now, start, last_n_measurements,
              failed_corners, at_peak, back, raised, fwd, rev, below, outcome, inserted,
              call_start, read_at, log, shiftreg, hall>>

-----------------------------------------------------------------------------
(* Bounds of the model.                                                    *)

\* largest min_sample_count of the general specification
MaxSampleCount == 3
\* largest time (ms) a pulse may take beyond its sleeps
MaxOverhead == 1
\* most forward pulses of one attempt that are followed (the default budget
\* allows 58)
MaxPulses == 60
\* largest |step_count| of a drive_motor call (the sequence has 8 steps)
MaxSteps == 10
\* most commands sent outside drive_motor (disable_motor, send_drive_command)
\* between two drive_motor calls
MaxDirectSends == 2

-----------------------------------------------------------------------------
(* Program constants.                                                      *)

SHIFT_REGISTER_SLEEP_US == 100
PULSE_MS == 5
SETTLE_MS == 10
HALL_SETTLE_MS == 10
ADC_MID == 32768
DEFAULT_TIMEOUT_PER_MOTOR_MS == 2000
DEFAULT_MIN_VALID_VALUE == 1000
DEFAULT_MIN_SAMPLE_COUNT == 9
\* period of time.ticks_ms() (MicroPython, rp2 port: 2^30)
TICKS_PERIOD == 1073741824

CornerIds == 0 .. 3

\* ADC readings the sensor may return: |32768 - v| is 0, 500, 1000, 2000,
\* 3000 and 32768, on either side of the midpoint
AdcVals == {32768, 33268, 31768, 34768, 29768, 0}

-----------------------------------------------------------------------------
(* Pure functions.                                                         *)

Abs(x) == IF x < 0 THEN -x ELSE x

\* time.ticks_ms(): the wall clock wrapped to the tick period
ticks_ms(t) == t % TICKS_PERIOD

\* duration of one set_shift_registers call: 16 bits of three sleeps, then
\* the latch with two sleeps, each SHIFT_REGISTER_SLEEP_US
SetShiftRegistersMs == (16 * 3 * SHIFT_REGISTER_SLEEP_US + 2 * SHIFT_REGISTER_SLEEP_US) \div 1000

\* duration of pulse_corner_motor: state, sleep pulse_ms, stop, sleep settle_ms
PulseCornerMotorMs == SetShiftRegistersMs + PULSE_MS + SetShiftRegistersMs + SETTLE_MS

\* a bug: the abs left out
read_hall_sensor_signed(v) == ADC_MID - v

\* read_hall_sensor_abs_u16: abs((1 << 15) - val)
read_hall_sensor_abs_u16(v) == Abs(ADC_MID - v)

\* a bug: the validity test left out
IsValidSampleAlways(val, mvv) == TRUE

\* a bug: a sample equal to min_valid_value skipped as well
IsValidSampleStrict(val, mvv) == val > mvv

\* the test "val < min_valid_value" negated: the sample is considered
IsValidSample(val, mvv) == ~(val < mvv)

\* a bug: pop() instead of pop(0) drops the newest sample
UpdateMeasurementsPopNewest(m, val, msc) ==
    LET a == Append(m, val)
    IN  IF Len(a) > msc THEN SubSeq(a, 1, Len(a) - 1) ELSE a

\* last_n_measurements.append(val); pop(0) if longer than min_sample_count
UpdateMeasurements(m, val, msc) ==
    LET a == Append(m, val)
    IN  IF Len(a) > msc THEN Tail(a) ELSE a

\* a bug: the oldest sample taken for the middle one
MiddleIndexFirst(m) == 1

\* a bug: the newest sample taken for the middle one
MiddleIndexLast(m) == Len(m)

\* measurements[len(measurements) // 2], 0-based in the source
MiddleIndex(m) == (Len(m) \div 2) + 1

\* a bug: the length test left out
is_at_peak_any_length(measurements, msc) ==
    LET middle_val == measurements[MiddleIndex(measurements)]
    IN  \A i \in 1 .. Len(measurements) : middle_val >= measurements[i]

\* a bug: > instead of >=
is_at_peak_strict(measurements, msc) ==
    IF Len(measurements) < msc
    THEN FALSE
    ELSE LET middle_val == measurements[MiddleIndex(measurements)]
         IN  \A i \in 1 .. Len(measurements) : middle_val > measurements[i]

is_at_peak(measurements, msc) ==
    IF Len(measurements) < msc
    THEN FALSE
    ELSE LET middle_val == measurements[MiddleIndex(measurements)]
         IN  \A i \in 1 .. Len(measurements) : middle_val >= measurements[i]

\* a bug: backing off by the whole window
BackOffCountFull(msc) == msc

\* range(min_sample_count // 2): number of back-off pulses
BackOffCount(msc) == msc \div 2

\* a bug: the budget itself counts as exceeded
TimedOutInclusive(t, st, timeout) == ticks_ms(t) - st >= timeout

\* time.ticks_ms() - start > timeout_per_motor_ms
TimedOut(t, st, timeout) == ticks_ms(t) - st > timeout

\* a bug: raising whatever the failure list holds
ShouldRaiseAlways(failed) == TRUE

\* if failed_corners: raise
ShouldRaise(failed) == failed # <<>>

-----------------------------------------------------------------------------
(* The sensor: what the ADC returns at forward step n of an attempt.       *)

\* a triangular waveform: strictly increasing up to step p.peak, strictly
\* decreasing after it
TriangleVal(n, p) ==
    IF n <= p.peak
    THEN p.base + p.up * n
    ELSE p.base + p.up * p.peak - p.down * (n - p.peak)

SensorAdc(kind, n, p, mvv) ==
    CASE kind = "free"     -> AdcVals
      [] kind = "invalid"  -> {v \in AdcVals : Abs(ADC_MID - v) < mvv}
      [] kind = "triangle" -> {ADC_MID + p.sign * TriangleVal(n, p)}

-----------------------------------------------------------------------------
(* The shift register: set_shift_registers and set_corner_motor_state.     *)
(* Two cascaded 8-bit registers: a rising edge of SRCK shifts SER_IN into  *)
(* stage 0 and every stage into the next, a rising edge of RCLK copies the *)
(* stages to the outputs.  Sequences are 1-based: reg[k] of the source is  *)
(* element k + 1.                                                          *)

OutputCount == 16

AllOff == [k \in 1 .. OutputCount |-> FALSE]

\* no demo_zeroing_corner_motor is running
NoDemo == [corner |-> -1, left |-> 0]

\* the shift register cleared and with its clocks low, before any data was
\* shifted; then_data are the set_shift_registers calls the running function
\* has still to make, demo the loop of a running demo_zeroing_corner_motor
PowerOnShiftReg ==
    [pc |-> "idle", corner |-> 0, state |-> 0, data |-> AllOff, i |-> 0,
     ser_in |-> 0, srck |-> 0, rclk |-> 0,
     stages |-> [k \in 1 .. OutputCount |-> 0],
     outputs |-> [k \in 1 .. OutputCount |-> 0],
     srck_pulses |-> 0, rclk_pulses |-> 0, shifted_at_latch |-> 0,
     pending |-> <<>>, then_data |-> <<>>, demo |-> NoDemo]

\* a bug: the two drive lines of a corner swapped
CornerMotorRegSwapped(corner, state) ==
    [k \in 1 .. OutputCount |->
        IF state = 1 THEN k = 8 + corner * 2 + 1 + 1
        ELSE IF state = -1 THEN k = 8 + corner * 2 + 0 + 1
        ELSE FALSE]

\* a bug: both drive lines of the corner on for Extend
CornerMotorRegBothLines(corner, state) ==
    [k \in 1 .. OutputCount |->
        IF state = 1 THEN k \in {8 + corner * 2 + 0 + 1, 8 + corner * 2 + 1 + 1}
        ELSE IF state = -1 THEN k = 8 + corner * 2 + 1 + 1
        ELSE FALSE]

\* set_corner_motor_state: reg = [False] * 16 with the drive lines of the state
CornerMotorReg(corner, state) ==
    [k \in 1 .. OutputCount |->
        IF state = 1 THEN k = 8 + corner * 2 + 0 + 1
        ELSE IF state = -1 THEN k = 8 + corner * 2 + 1 + 1
        ELSE FALSE]

\* a bug: the checks on the arguments left out
ValidCornerCallAlways(corner, state) == TRUE

\* the checks of set_corner_motor_state on its arguments
ValidCornerCall(corner, state) ==
    /\ ~(corner < 0 \/ corner > 3)
    /\ state \in {-1, 0, 1}

\* a bug: the bits shifted out in list order
ShiftOrderForward(data) == data

\* for bit in reversed(data)
ShiftOrder(data) == [k \in 1 .. Len(data) |-> data[Len(data) + 1 - k]]

\* entry of set_shift_registers(data)
ShiftBegin(s, data) ==
    IF Len(data) # 16
    THEN [s EXCEPT !.pc = "value_error"]
    ELSE [s EXCEPT !.pc = "set_bit", !.data = data, !.i = 1,
                   !.srck_pulses = 0, !.rclk_pulses = 0, !.shifted_at_latch = 0]

\* PIN_SHIFT_SER_IN.value(1 if bit else 0)
ShiftSetBit(s) ==
    [s EXCEPT !.ser_in = IF ShiftOrder(s.data)[s.i] THEN 1 ELSE 0,
              !.pc = "clock_high"]

\* PIN_SHIFT_SRCK.value(1): the rising edge shifts SER_IN in
ShiftClockHigh(s) ==
    [s EXCEPT !.srck = 1,
              !.stages = <<s.ser_in>> \o SubSeq(s.stages, 1, OutputCount - 1),
              !.srck_pulses = @ + 1,
              !.pc = "clock_low"]

\* PIN_SHIFT_SRCK.value(0), then the next bit or the latch
ShiftClockLow(s) ==
    [s EXCEPT !.srck = 0,
              !.i = IF s.i < Len(s.data) THEN s.i + 1 ELSE s.i,
              !.pc = IF s.i < Len(s.data) THEN "set_bit" ELSE "latch_high"]

\* PIN_SHIFT_RCLK.value(1): the rising edge latches the stages to the outputs
ShiftLatchHigh(s) ==
    [s EXCEPT !.rclk = 1,
              !.outputs = s.stages,
              !.rclk_pulses = @ + 1,
              !.shifted_at_latch = s.srck_pulses,
              !.pc = "latch_low"]

\* PIN_SHIFT_RCLK.value(0) and return
ShiftLatchLow(s) == [s EXCEPT !.rclk = 0, !.pc = "returned"]

ShiftRunning(s) == s.pc \in {"set_bit", "clock_high", "clock_low", "latch_high", "latch_low"}

\* one pin write of set_shift_registers
ShiftStep(s) ==
    CASE s.pc = "set_bit"    -> ShiftSetBit(s)
      [] s.pc = "clock_high" -> ShiftClockHigh(s)
      [] s.pc = "clock_low"  -> ShiftClockLow(s)
      [] s.pc = "latch_high" -> ShiftLatchHigh(s)
      [] s.pc = "latch_low"  -> ShiftLatchLow(s)

\* set_shift_registers(data) from entry to return
RECURSIVE ShiftRun(_)
ShiftRun(s) == IF ShiftRunning(s) THEN ShiftRun(ShiftStep(s)) ELSE s

set_shift_registers(s, data) == ShiftRun(ShiftBegin(s, data))

\* entry of set_corner_motor_state(corner, state): the checks, the data
set_corner_motor_state_begin(s, corner, state) ==
    IF ~ValidCornerCall(corner, state)
    THEN [s EXCEPT !.pc = "value_error", !.corner = corner, !.state = state]
    ELSE ShiftBegin([s EXCEPT !.corner = corner, !.state = state],
                    CornerMotorReg(corner, state))

\* set_corner_motor_state(corner, state) from entry to return
set_corner_motor_state(s, corner, state) ==
    ShiftRun(set_corner_motor_state_begin(s, corner, state))

\* the same for valid arguments, computed once: what the call leaves does not
\* depend on what the register held
SetCornerMotorState ==
    [corner \in CornerIds, state \in {-1, 0, 1} |->
        set_corner_motor_state(PowerOnShiftReg, corner, state)]

\* a bug: the pulse not ended by a Stop
PulseCommandsNoStop(direction) == <<direction>>

\* pulse_corner_motor(corner, direction): drive, sleep pulse_ms, stop, sleep
\* settle_ms; the states it commands, in order
PulseCommands(direction) == <<direction, 0>>

\* a bug: the motor left driven when the pulse returns
pulse_corner_motor_left_driven(corner, direction) ==
    SetCornerMotorState[corner, direction]

\* the shift register after pulse_corner_motor(corner, direction)
pulse_corner_motor(corner, direction) ==
    SetCornerMotorState[corner, PulseCommands(direction)[Len(PulseCommands(direction))]]

-----------------------------------------------------------------------------
(* The other functions that write the shift register.                      *)

\* init_shift_register, its pin writes: N_SRCLR low clears the stages (the
\* outputs keep what was latched), N_SRCLR high, N_OE low, SRCK and RCLK low
init_shift_register_pins(s) ==
    [s EXCEPT !.stages = [k \in 1 .. OutputCount |-> 0],
              !.srck = 0, !.rclk = 0, !.pc = "init_pins"]

\* init_shift_register, after its pin writes: set_shift_registers([False] * 16)
init_shift_register_begin(s) == ShiftBegin(s, AllOff)

init_shift_register(s) ==
    ShiftRun(init_shift_register_begin(init_shift_register_pins(s)))

\* set_shift_register_activate_stepper: reg = [False] * 16; reg[stepper_num] = True
ActivateStepperReg(stepper_num) == [k \in 1 .. OutputCount |-> k = stepper_num + 1]

\* entry of set_shift_register_activate_stepper(stepper_num): the check, the data
set_shift_register_activate_stepper_begin(s, stepper_num) ==
    IF stepper_num < 0 \/ stepper_num > 7
    THEN [s EXCEPT !.pc = "value_error"]
    ELSE ShiftBegin(s, ActivateStepperReg(stepper_num))

set_shift_register_activate_stepper(s, stepper_num) ==
    ShiftRun(set_shift_register_activate_stepper_begin(s, stepper_num))

\* drive_all_corner_motors: the first drive line of every corner for
\* direction 1, the second for -1, none for 0
DriveAllCornerMotorsReg(direction) ==
    [k \in 1 .. OutputCount |->
        \E corner_num \in 0 .. 3 :
            \/ direction = 1 /\ k = 8 + corner_num * 2 + 0 + 1
            \/ direction = -1 /\ k = 8 + corner_num * 2 + 1 + 1]

\* entry of drive_all_corner_motors(direction): ValueError for a direction
\* other than -1, 0, 1; else set_shift_registers(reg), with
\* set_shift_registers([False] * 16) to follow
drive_all_corner_motors_begin(s, direction) ==
    IF direction \notin {-1, 0, 1}
    THEN [s EXCEPT !.pc = "value_error"]
    ELSE ShiftBegin([s EXCEPT !.then_data = <<AllOff>>],
                    DriveAllCornerMotorsReg(direction))

\* for i in range(100) of demo_zeroing_corner_motor
DemoIterations == 100

\* reg_cw of demo_zeroing_corner_motor
DemoRegCw(corner_number) ==
    [k \in 1 .. OutputCount |-> k = corner_number * 2 + 8 + 0 + 1]

\* one pass of the loop of demo_zeroing_corner_motor begins:
\* set_shift_registers(reg_cw), with set_shift_registers(reg_off) to follow
DemoIterationBegin(s) ==
    ShiftBegin([s EXCEPT !.then_data = <<AllOff>>], DemoRegCw(s.demo.corner))

\* entry of demo_zeroing_corner_motor(corner_number): the assert, the first pass
demo_zeroing_corner_motor_begin(s, corner_number) ==
    IF ~(0 <= corner_number /\ corner_number <= 3)
    THEN [s EXCEPT !.pc = "assertion_error"]
    ELSE DemoIterationBegin([s EXCEPT !.demo = [corner |-> corner_number,
                                                left |-> DemoIterations]])

\* no function that writes the shift register is running
ShiftIdle(s) ==
    /\ ~ShiftRunning(s)
    /\ s.pc \notin {"init_pins", "demo_sleep"}
    /\ s.pending = <<>>
    /\ s.then_data = <<>>
    /\ s.demo = NoDemo

\* the shift register when main() reaches its prompt: init_shift_register(),
\* then set_shift_register_activate_stepper(0)
AtPromptShiftReg ==
    [set_shift_register_activate_stepper(init_shift_register(PowerOnShiftReg), 0)
        EXCEPT !.pc = "idle"]

-----------------------------------------------------------------------------
(* The stepper driver: drive_motor and send_drive_command.                 *)

\* 0b IN4 IN3 IN2 IN1
HALF_STEP_SEQUENCE == <<8, 9, 1, 5, 4, 6, 2, 10>>

REGISTER_ADDRESS_IC1_CONTROL == 1
REGISTER_ADDRESS_IC2_CONTROL == 2

IC1_I2CBC_SELECT == 1
IC1_MODE_4_INPUTS == 0
IC1_TRQ_SETTING == 1

\* a | b on naturals
RECURSIVE BitOr(_, _)
BitOr(a, b) ==
    IF a = 0 THEN b
    ELSE IF b = 0 THEN a
    ELSE (IF a % 2 = 1 \/ b % 2 = 1 THEN 1 ELSE 0) + 2 * BitOr(a \div 2, b \div 2)

\* send_drive_command: (trq << 7) | (step_value << 3) | (i2cbc << 2) | (mode << 1)
send_drive_command(trq, step_value, i2cbc, mode) ==
    BitOr(BitOr(BitOr(trq * 2 ^ 7, step_value * 2 ^ 3), i2cbc * 2 ^ 2), mode * 2 ^ 1)

\* disable_motor: the command with step_value=0
disable_motor ==
    send_drive_command(IC1_TRQ_SETTING, 0, IC1_I2CBC_SELECT, IC1_MODE_4_INPUTS)

\* step_seq[::-1]
Reversed(s) == [k \in 1 .. Len(s) |-> s[Len(s) + 1 - k]]

\* drive_motor is not running and has sent nothing
DriveIdle ==
    [pc |-> "idle", step_count |-> 0, step_seq_run |-> HALF_STEP_SEQUENCE,
     abs_step_count |-> 0, done_step_count |-> 0, pos |-> 1, sent |-> <<>>]

\* entry of drive_motor(step_count): done_step_count = 0, the sequence in the
\* order of the sign, abs_step_count, and the first pass of the for loop
DriveMotorBegin(step_count) ==
    [pc |-> "send", step_count |-> step_count,
     step_seq_run |-> IF step_count < 0 THEN Reversed(HALF_STEP_SEQUENCE)
                      ELSE HALF_STEP_SEQUENCE,
     abs_step_count |-> Abs(step_count), done_step_count |-> 0, pos |-> 1,
     sent |-> <<>>]

\* send_drive_command(..., step_value=step_value, ...) of the loop body
DriveSend(d) ==
    [d EXCEPT !.sent = Append(@, send_drive_command(IC1_TRQ_SETTING,
                                                    d.step_seq_run[d.pos],
                                                    IC1_I2CBC_SELECT,
                                                    IC1_MODE_4_INPUTS)),
              !.pc = "sleep"]

\* time.sleep(step_period_sec); done_step_count += 1; return when
\* done_step_count >= abs_step_count, else the next element of the for loop,
\* which the while loop starts again after the last
DriveSleepAndCount(d) ==
    [d EXCEPT !.done_step_count = @ + 1,
              !.pc = IF d.done_step_count + 1 >= d.abs_step_count
                     THEN "returned" ELSE "send",
              !.pos = IF d.done_step_count + 1 >= d.abs_step_count THEN @
                      ELSE (@ % Len(d.step_seq_run)) + 1]

-----------------------------------------------------------------------------
(* The hall sensors: init_hall_sensor and read_hall_sensor_u16.            *)

\* init_hall_sensor: the four select pins high (channel 15)
InitHallSelect == <<1, 1, 1, 1>>

\* a bug: the fourth select pin left as it was
InitHallSensorLeavesPin3(h) ==
    [h EXCEPT !.select = <<1, 1, 1, h.select[4]>>]

\* init_hall_sensor()
init_hall_sensor(h) == [h EXCEPT !.select = InitHallSelect]

\* PIN_HALL_SELECT_k.value(sensor_num & (1 << k)): high when the bit is set
HallSelectPins(sensor_num) ==
    [k \in 1 .. 4 |-> IF (sensor_num \div (2 ^ (k - 1))) % 2 = 1 THEN 1 ELSE 0]

\* the channel the select pins address
MuxChannel(select) == select[1] + 2 * select[2] + 4 * select[3] + 8 * select[4]

\* a bug: every corner read through the first corner's sensor
CornerSensorFirst(corner) == 8

\* read_corner_hall_sensor_abs_u16: read_hall_sensor_abs_u16(corner_num + 8)
CornerSensor(corner) == corner + 8

\* the multiplexer after main() has run init_hall_sensor
IdleHall ==
    [pc |-> "idle", corner |-> -1, sensor_num |-> 15, select |-> InitHallSelect,
     val |-> 0]

\* read_hall_sensor_u16(sensor_num): select the channel
HallSelect(h, sensor_num) ==
    [h EXCEPT !.select = HallSelectPins(sensor_num), !.sensor_num = sensor_num,
              !.pc = "settle"]

\* time.sleep_ms(10); val = HALL_ADC.read_u16()
HallSample(h, v) == [h EXCEPT !.val = v, !.pc = "restore"]

\* init_hall_sensor(); return val
HallReturn(h) == [init_hall_sensor(h) EXCEPT !.val = 0, !.pc = "idle"]

\* read_hall_sensor_u16(sensor_num) from entry to return, the ADC giving v
read_hall_sensor_u16(h, sensor_num, v) ==
    HallReturn(HallSample(HallSelect(h, sensor_num), v))

-----------------------------------------------------------------------------
(* zero_corner_motors.                                                     *)

\* entries of the log: the attempt, the operation, its target (a corner, or a
\* multiplexer channel for a read) and the pulse and settle times of a pulse
LogStop(a, corner) == <<a, "stop", corner, 0, 0>>
LogPulse(a, direction, corner, pulse_ms, settle_ms) ==
    <<a, IF direction = 1 THEN "fwd" ELSE "rev", corner, pulse_ms, settle_ms>>
LogRead(a, channel) == <<a, "read", channel, 0, 0>>

corner_num == corner_numbers[idx]

Attempts == 1 .. Len(corner_numbers)

\* a bug: the window and the start timestamp set up once, before the for loop
StartCornerSharedWindowAndStart ==
    /\ pc = "for_corner"
    /\ idx <= Len(corner_numbers)
    /\ start' = IF idx = 1 THEN ticks_ms(now) ELSE start
    /\ now' = now + SetShiftRegistersMs
    /\ last_n_measurements' = IF idx = 1 THEN <<>> ELSE last_n_measurements
    /\ inserted' = <<>>
    /\ at_peak' = FALSE
    /\ back' = 0
    /\ read_at' = <<>>
    /\ shiftreg' = IF corner_num \in CornerIds
                   THEN SetCornerMotorState[corner_num, 0]
                   ELSE set_corner_motor_state(shiftreg, corner_num, 0)
    /\ log' = Append(log, LogStop(idx, corner_num))
    /\ pc' = "check_timeout"
    /\ UNCHANGED <<args, idx, failed_corners, raised, fwd, rev, below, outcome, hall>>

\* a bug: the motor not stopped at the start of a corner
StartCornerNoStop ==
    /\ pc = "for_corner"
    /\ idx <= Len(corner_numbers)
    /\ start' = ticks_ms(now)
    /\ last_n_measurements' = <<>>
    /\ inserted' = <<>>
    /\ at_peak' = FALSE
    /\ back' = 0
    /\ read_at' = <<>>
    /\ pc' = "check_timeout"
    /\ UNCHANGED <<args, now, idx, failed_corners, raised, fwd, rev, below, outcome,
                   log, shiftreg, hall>>

\* for corner_num in corner_numbers: start = ticks_ms(); stop the motor;
\* last_n_measurements = [].  set_corner_motor_state raises ValueError for a
\* corner outside 0..3, before it writes a pin, and the call ends there, with
\* the new start and with the window of the attempt before.
StartCorner ==
    /\ pc = "for_corner"
    /\ idx <= Len(corner_numbers)
    /\ start' = ticks_ms(now)
    /\ shiftreg' = IF corner_num \in CornerIds
                   THEN SetCornerMotorState[corner_num, 0]
                   ELSE set_corner_motor_state(shiftreg, corner_num, 0)
    /\ IF ValidCornerCall(corner_num, 0)
       THEN /\ now' = now + SetShiftRegistersMs
            /\ last_n_measurements' = <<>>
            /\ inserted' = <<>>
            /\ read_at' = <<>>
            /\ at_peak' = FALSE
            /\ back' = 0
            /\ log' = Append(log, LogStop(idx, corner_num))
            /\ pc' = "check_timeout"
       ELSE /\ pc' = "value_error"
            /\ UNCHANGED <<now, last_n_measurements, inserted, read_at,
                           at_peak, back, log>>
    /\ UNCHANGED <<args, idx, failed_corners, raised, fwd, rev, below, outcome, hall>>

\* a bug: raising at the first timeout instead of going on to the next corner
CheckTimeoutRaises ==
    /\ pc = "check_timeout"
    /\ IF TimedOut(now, start, timeout_per_motor_ms)
       THEN /\ now' = now + SetShiftRegistersMs
            /\ failed_corners' = Append(failed_corners, corner_num)
            /\ outcome' = [outcome EXCEPT ![idx] = "timedout"]
            /\ raised' = raised + 1
            /\ shiftreg' = SetCornerMotorState[corner_num, 0]
            /\ log' = Append(log, LogStop(idx, corner_num))
            /\ pc' = "raised"
            /\ UNCHANGED idx
       ELSE /\ pc' = "pulse"
            /\ UNCHANGED <<now, failed_corners, outcome, idx, raised, shiftreg, log>>
    /\ UNCHANGED <<args, start, last_n_measurements, at_peak, back,
                   fwd, rev, below, inserted, read_at, hall>>

\* the timeout check at the top of the while loop
CheckTimeout ==
    /\ pc = "check_timeout"
    /\ IF TimedOut(now, start, timeout_per_motor_ms)
       THEN /\ now' = now + SetShiftRegistersMs
            /\ failed_corners' = Append(failed_corners, corner_num)
            /\ outcome' = [outcome EXCEPT ![idx] = "timedout"]
            /\ shiftreg' = SetCornerMotorState[corner_num, 0]
            /\ log' = Append(log, LogStop(idx, corner_num))
            /\ idx' = idx + 1
            /\ pc' = "for_corner"
       ELSE /\ pc' = "pulse"
            /\ UNCHANGED <<now, failed_corners, outcome, idx, shiftreg, log>>
    /\ UNCHANGED <<args, start, last_n_measurements, at_peak, back, raised,
                   fwd, rev, below, inserted, read_at, hall>>

\* pulse_corner_motor(corner_num, 1)
ForwardPulse ==
    /\ pc = "pulse"
    /\ fwd[idx] < MaxPulses
    /\ now' = now + PulseCornerMotorMs + overhead_ms
    /\ fwd' = [fwd EXCEPT ![idx] = @ + 1]
    /\ shiftreg' = pulse_corner_motor(corner_num, 1)
    /\ log' = Append(log, LogPulse(idx, 1, corner_num, PULSE_MS, SETTLE_MS))
    /\ pc' = "read"
    /\ UNCHANGED <<args, idx, start, last_n_measurements, failed_corners, at_peak,
                   back, raised, rev, below, outcome, inserted, read_at, hall>>

\* val = read_corner_hall_sensor_abs_u16(corner_num); skip it when it is
\* below min_valid_value, else update the window
ReadSensor ==
    /\ pc = "read"
    /\ \E v \in SensorAdc(wave[idx], fwd[idx], wavep, min_valid_value) :
         LET val == read_hall_sensor_abs_u16(v)
         IN  /\ IF IsValidSample(val, min_valid_value)
                THEN /\ last_n_measurements' =
                            UpdateMeasurements(last_n_measurements, val, min_sample_count)
                     /\ pc' = "is_at_peak"
                ELSE /\ pc' = "check_timeout"
                     /\ UNCHANGED last_n_measurements
             \* history of what the sensor returned
             /\ below' = [below EXCEPT ![idx] = IF val < min_valid_value THEN @ + 1 ELSE @]
             /\ inserted' = IF val < min_valid_value THEN inserted
                            ELSE Append(inserted, val)
             /\ read_at' = IF val < min_valid_value THEN read_at
                           ELSE Append(read_at, fwd[idx])
             /\ hall' = read_hall_sensor_u16([hall EXCEPT !.corner = corner_num],
                                             CornerSensor(corner_num), v)
    /\ log' = Append(log, LogRead(idx, CornerSensor(corner_num)))
    /\ now' = now + HALL_SETTLE_MS
    /\ UNCHANGED <<args, idx, start, failed_corners, at_peak, back, raised,
                   fwd, rev, outcome, shiftreg>>

\* if is_at_peak(last_n_measurements, min_sample_count): ...
EvalPeak ==
    /\ pc = "is_at_peak"
    /\ at_peak' = is_at_peak(last_n_measurements, min_sample_count)
    /\ pc' = IF at_peak' THEN "back_off" ELSE "check_timeout"
    /\ UNCHANGED <<args, idx, now, start, last_n_measurements, failed_corners, back,
                   raised, fwd, rev, below, outcome, inserted, read_at, log,
                   shiftreg, hall>>

\* for _ in range(min_sample_count // 2): pulse_corner_motor(corner_num, -1)
BackOffPulse ==
    /\ pc = "back_off"
    /\ back < BackOffCount(min_sample_count)
    /\ now' = now + PulseCornerMotorMs + overhead_ms
    /\ back' = back + 1
    /\ rev' = [rev EXCEPT ![idx] = @ + 1]
    /\ shiftreg' = pulse_corner_motor(corner_num, -1)
    /\ log' = Append(log, LogPulse(idx, -1, corner_num, PULSE_MS, SETTLE_MS))
    /\ UNCHANGED <<args, pc, idx, start, last_n_measurements, failed_corners, at_peak,
                   raised, fwd, below, outcome, inserted, read_at, hall>>

\* a bug: no break after the back-off loop, the while loop goes on
BackOffDoneNoBreak ==
    /\ pc = "back_off"
    /\ back >= BackOffCount(min_sample_count)
    /\ back' = 0
    /\ pc' = "check_timeout"
    /\ UNCHANGED <<args, idx, now, start, last_n_measurements, failed_corners, at_peak,
                   raised, fwd, rev, below, outcome, inserted, read_at, log,
                   shiftreg, hall>>

\* the break after the back-off loop
BackOffDone ==
    /\ pc = "back_off"
    /\ back >= BackOffCount(min_sample_count)
    /\ outcome' = [outcome EXCEPT ![idx] = "homed"]
    /\ idx' = idx + 1
    /\ pc' = "for_corner"
    /\ UNCHANGED <<args, now, start, last_n_measurements, failed_corners, at_peak,
                   back, raised, fwd, rev, below, inserted, read_at, log,
                   shiftreg, hall>>

\* after the loop: if failed_corners: raise RuntimeError(...)
RaiseTimeout ==
    /\ pc = "for_corner"
    /\ idx > Len(corner_numbers)
    /\ ShouldRaise(failed_corners)
    /\ raised' = raised + 1
    /\ pc' = "raised"
    /\ UNCHANGED <<args, idx, now, start, last_n_measurements, failed_corners, at_peak,
                   back, fwd, rev, below, outcome, inserted, read_at, log,
                   shiftreg, hall>>

\* print("Zeroing complete.") and return
ReturnComplete ==
    /\ pc = "for_corner"
    /\ idx > Len(corner_numbers)
    /\ ~ShouldRaise(failed_corners)
    /\ pc' = "returned"
    /\ UNCHANGED <<args, idx, now, start, last_n_measurements, failed_corners, at_peak,
                   back, raised, fwd, rev, below, outcome, inserted, read_at, log,
                   shiftreg, hall>>

Next ==
    \/ StartCorner
    \/ CheckTimeout
    \/ ForwardPulse
    \/ ReadSensor
    \/ EvalPeak
    \/ BackOffPulse
    \/ BackOffDone
    \/ RaiseTimeout
    \/ ReturnComplete

-----------------------------------------------------------------------------
(* Initial states: the state at the call of zero_corner_motors.            *)

\* corner_numbers arguments: single corners, distinct corners, a repeated corner
CornerLists == {<<0>>, <<3>>, <<1, 2>>, <<3, 0>>, <<2, 2>>}

NoWave == [peak |-> 0, base |-> 0, up |-> 0, down |-> 0, sign |-> 1]

InitCall(corners, timeouts, mvvs, mscs, kinds, params, times) ==
    /\ overhead_ms \in 0 .. MaxOverhead
    /\ corner_numbers \in corners
    /\ timeout_per_motor_ms \in timeouts
    /\ min_valid_value \in mvvs
    /\ min_sample_count \in mscs
    /\ wave \in [1 .. Len(corner_numbers) -> kinds]
    /\ wavep \in params
    /\ now \in times
    /\ call_start = now
    /\ drive = DriveIdle
    /\ read_at = <<>>
    /\ log = <<>>
    /\ pc = "for_corner"
    /\ idx = 1
    /\ start = 0
    /\ last_n_measurements = <<>>
    /\ failed_corners = <<>>
    /\ at_peak = FALSE
    /\ back = 0
    /\ raised = 0
    /\ fwd = [k \in 1 .. Len(corner_numbers) |-> 0]
    /\ rev = [k \in 1 .. Len(corner_numbers) |-> 0]
    /\ below = [k \in 1 .. Len(corner_numbers) |-> 0]
    /\ outcome = [k \in 1 .. Len(corner_numbers) |-> "pending"]
    /\ inserted = <<>>

\* main() has reached its prompt, where every function is called from: it
\* has run init_shift_register, init_hall_sensor,
\* set_shift_register_activate_stepper(0) and hall_sensor_self_check
HardwareReady ==
    /\ shiftreg = AtPromptShiftReg
    /\ hall = IdleHall

\* every sample is free; short time budgets keep the attempts short (three
\* or four iterations; 110 is the elapsed time of the fourth check when a
\* pulse takes no more than its sleeps)
Init ==
    /\ InitCall(CornerLists, {110, 120}, {1000, 1001},
                1 .. MaxSampleCount, {"free"}, {NoWave}, {0})
    /\ HardwareReady

Spec == Init /\ [][Next]_vars

\* the default arguments, with sensors that are dead or triangular
TriangleWaves ==
    [peak : {20}, base : {2000, 5000}, up : {1, 50}, down : {1, 30}, sign : {-1, 1}]

InitTriangle ==
    /\ InitCall(CornerLists, {DEFAULT_TIMEOUT_PER_MOTOR_MS},
                {DEFAULT_MIN_VALID_VALUE}, {DEFAULT_MIN_SAMPLE_COUNT},
                {"invalid", "triangle"}, TriangleWaves, {0})
    /\ HardwareReady

SpecTriangle == InitTriangle /\ [][Next]_vars

\* values of the tick counter at the call: far from its wrap, and 60 ms and
\* 1000 ms before it
WrapStarts == {0, TICKS_PERIOD - 60, TICKS_PERIOD - 1000}

\* the default arguments, the call made near the wrap of time.ticks_ms
InitWrap ==
    /\ InitCall({<<0>>, <<1, 2>>, <<2, 2>>}, {DEFAULT_TIMEOUT_PER_MOTOR_MS},
                {DEFAULT_MIN_VALID_VALUE}, {DEFAULT_MIN_SAMPLE_COUNT},
                {"invalid", "triangle"},
                {w \in TriangleWaves : w.base = 2000 /\ w.sign = 1}, WrapStarts)
    /\ HardwareReady

SpecWrap == InitWrap /\ [][Next]_vars

-----------------------------------------------------------------------------
(* The pins, one write at a time: any sequence of set_corner_motor_state   *)
(* calls, and any sequence of hall sensor reads.                           *)

\* zero_corner_motors is not running
NoCall ==
    InitCall({<<0>>}, {DEFAULT_TIMEOUT_PER_MOTOR_MS}, {DEFAULT_MIN_VALID_VALUE},
             {DEFAULT_MIN_SAMPLE_COUNT}, {"free"}, {NoWave}, {0})

\* arguments a caller may pass to set_corner_motor_state
CornerArgs == -1 .. 4
StateArgs == -2 .. 2

CallSetCornerMotorState ==
    /\ ~ShiftRunning(shiftreg)
    /\ shiftreg.pending = <<>>
    /\ \E corner \in CornerArgs, state \in StateArgs :
          shiftreg' = set_corner_motor_state_begin(shiftreg, corner, state)
    /\ UNCHANGED <<zvars, hall>>

SetBit ==
    /\ shiftreg.pc = "set_bit"
    /\ shiftreg' = ShiftSetBit(shiftreg)
    /\ UNCHANGED <<zvars, hall>>

ClockHigh ==
    /\ shiftreg.pc = "clock_high"
    /\ shiftreg' = ShiftClockHigh(shiftreg)
    /\ UNCHANGED <<zvars, hall>>

ClockLow ==
    /\ shiftreg.pc = "clock_low"
    /\ shiftreg' = ShiftClockLow(shiftreg)
    /\ UNCHANGED <<zvars, hall>>

LatchHigh ==
    /\ shiftreg.pc = "latch_high"
    /\ shiftreg' = ShiftLatchHigh(shiftreg)
    /\ UNCHANGED <<zvars, hall>>

LatchLow ==
    /\ shiftreg.pc = "latch_low"
    /\ shiftreg' = ShiftLatchLow(shiftreg)
    /\ UNCHANGED <<zvars, hall>>

\* pulse_corner_motor(corner, direction): its first set_corner_motor_state;
\* a ValueError of that call ends the pulse
CallPulseCornerMotor ==
    /\ ~ShiftRunning(shiftreg)
    /\ shiftreg.pending = <<>>
    /\ \E corner \in CornerArgs, direction \in StateArgs :
          LET commands == PulseCommands(direction)
              rest == IF ValidCornerCall(corner, Head(commands))
                      THEN Tail(commands) ELSE <<>>
          IN  shiftreg' = set_corner_motor_state_begin(
                              [shiftreg EXCEPT !.pending = rest],
                              corner, Head(commands))
    /\ UNCHANGED <<zvars, hall>>

\* after the sleep of pulse_corner_motor: its next set_corner_motor_state
PulseNextCommand ==
    /\ shiftreg.pc = "returned"
    /\ shiftreg.pending # <<>>
    /\ shiftreg' = set_corner_motor_state_begin(
                        [shiftreg EXCEPT !.pending = Tail(shiftreg.pending)],
                        shiftreg.corner, Head(shiftreg.pending))
    /\ UNCHANGED <<zvars, hall>>

NextShift ==
    \/ CallSetCornerMotorState
    \/ CallPulseCornerMotor
    \/ PulseNextCommand
    \/ SetBit
    \/ ClockHigh
    \/ ClockLow
    \/ LatchHigh
    \/ LatchLow

\* data a caller may pass to set_shift_registers: all off, the stepper
\* select bits 0..7 on, every second bit on, and lists of 15, 17 and 0 bits
ShiftData ==
    {AllOff,
     [k \in 1 .. OutputCount |-> k <= 8],
     [k \in 1 .. OutputCount |-> k % 2 = 0],
     [k \in 1 .. OutputCount - 1 |-> k % 3 = 0],
     [k \in 1 .. OutputCount + 1 |-> TRUE],
     <<>>}

\* the shift register as an earlier set_shift_registers(data) has left it
AfterShiftData ==
    {[set_shift_registers(PowerOnShiftReg, data) EXCEPT !.pc = "idle"] :
        data \in {d \in ShiftData : Len(d) = OutputCount}}

InitShift ==
    /\ NoCall
    /\ shiftreg \in AfterShiftData \cup {AtPromptShiftReg}
    /\ hall = IdleHall

SpecShift == InitShift /\ [][NextShift]_vars

\* set_shift_registers(data) called directly
CallSetShiftRegisters ==
    /\ ShiftIdle(shiftreg)
    /\ \E data \in ShiftData : shiftreg' = ShiftBegin(shiftreg, data)
    /\ UNCHANGED <<zvars, hall>>

\* init_shift_register(): the clear and the pins
CallInitShiftRegister ==
    /\ ShiftIdle(shiftreg)
    /\ shiftreg' = init_shift_register_pins(shiftreg)
    /\ UNCHANGED <<zvars, hall>>

\* init_shift_register(): its set_shift_registers([False] * 16)
InitShiftRegisterClearOutputs ==
    /\ shiftreg.pc = "init_pins"
    /\ shiftreg' = init_shift_register_begin(shiftreg)
    /\ UNCHANGED <<zvars, hall>>

\* arguments a caller may pass to set_shift_register_activate_stepper
StepperArgs == -1 .. 8

\* set_shift_register_activate_stepper(stepper_num)
CallSetShiftRegisterActivateStepper ==
    /\ ShiftIdle(shiftreg)
    /\ \E stepper_num \in StepperArgs :
          shiftreg' = set_shift_register_activate_stepper_begin(shiftreg, stepper_num)
    /\ UNCHANGED <<zvars, hall>>

\* drive_all_corner_motors(direction, duration_ms): its first set_shift_registers
CallDriveAllCornerMotors ==
    /\ ShiftIdle(shiftreg)
    /\ \E direction \in StateArgs :
          shiftreg' = drive_all_corner_motors_begin(shiftreg, direction)
    /\ UNCHANGED <<zvars, hall>>

\* the set_shift_registers call that follows the one that has returned, in
\* drive_all_corner_motors (after the sleep) and in demo_zeroing_corner_motor
ThenSetShiftRegisters ==
    /\ shiftreg.pc = "returned"
    /\ shiftreg.then_data # <<>>
    /\ shiftreg' = ShiftBegin([shiftreg EXCEPT !.then_data = Tail(shiftreg.then_data)],
                              Head(shiftreg.then_data))
    /\ UNCHANGED <<zvars, hall>>

\* demo_zeroing_corner_motor(corner_number)
CallDemoZeroingCornerMotor ==
    /\ ShiftIdle(shiftreg)
    /\ \E corner_number \in CornerArgs :
          shiftreg' = demo_zeroing_corner_motor_begin(shiftreg, corner_number)
    /\ UNCHANGED <<zvars, hall>>

\* val = read_hall_sensor_u16(hall_sensor_number) of the demo, after its
\* set_shift_registers(reg_off); then time.sleep(1)
DemoReadHallSensor ==
    /\ shiftreg.pc = "returned"
    /\ shiftreg.then_data = <<>>
    /\ shiftreg.demo.left > 0
    /\ \E v \in AdcVals :
          hall' = read_hall_sensor_u16([hall EXCEPT !.corner = -1],
                                       shiftreg.demo.corner + 8, v)
    /\ shiftreg' = [shiftreg EXCEPT !.demo.left = @ - 1, !.pc = "demo_sleep"]
    /\ UNCHANGED zvars

\* the next pass of the loop of the demo, or its return after the last
DemoNextIteration ==
    /\ shiftreg.pc = "demo_sleep"
    /\ shiftreg' = IF shiftreg.demo.left > 0
                   THEN DemoIterationBegin(shiftreg)
                   ELSE [shiftreg EXCEPT !.pc = "returned", !.demo = NoDemo]
    /\ UNCHANGED <<zvars, hall>>

NextRegisters ==
    \/ CallSetShiftRegisters
    \/ CallInitShiftRegister
    \/ InitShiftRegisterClearOutputs
    \/ CallSetShiftRegisterActivateStepper
    \/ CallDriveAllCornerMotors
    \/ ThenSetShiftRegisters
    \/ CallDemoZeroingCornerMotor
    \/ DemoReadHallSensor
    \/ DemoNextIteration
    \/ SetBit
    \/ ClockHigh
    \/ ClockLow
    \/ LatchHigh
    \/ LatchLow

SpecRegisters == InitShift /\ [][NextRegisters]_vars

\* before main() has run init_hall_sensor the select pins hold anything
BootHall ==
    [pc : {"boot"}, corner : {-1}, sensor_num : {15}, select : [1 .. 4 -> {0, 1}],
     val : {0}]

HallIdle(h) == h.pc \in {"idle", "value_error"}

\* main(): init_hall_sensor()
MainInitHallSensor ==
    /\ hall.pc = "boot"
    /\ hall' = [init_hall_sensor(hall) EXCEPT !.pc = "idle"]
    /\ UNCHANGED <<zvars, shiftreg>>

\* read_hall_sensor_u16(sensor_num) and read_hall_sensor_abs_u16(sensor_num)
CallReadHallSensor ==
    /\ HallIdle(hall)
    /\ \E sensor_num \in 0 .. 15 :
          hall' = HallSelect([hall EXCEPT !.corner = -1], sensor_num)
    /\ UNCHANGED <<zvars, shiftreg>>

\* read_corner_hall_sensor_abs_u16(corner_num)
CallReadCornerHallSensor ==
    /\ HallIdle(hall)
    /\ \E corner \in CornerArgs :
          hall' = IF corner < 0 \/ corner > 3
                  THEN [hall EXCEPT !.pc = "value_error", !.corner = corner]
                  ELSE HallSelect([hall EXCEPT !.corner = corner], CornerSensor(corner))
    /\ UNCHANGED <<zvars, shiftreg>>

SampleHall ==
    /\ hall.pc = "settle"
    /\ \E v \in AdcVals : hall' = HallSample(hall, v)
    /\ UNCHANGED <<zvars, shiftreg>>

ReturnHall ==
    /\ hall.pc = "restore"
    /\ hall' = HallReturn(hall)
    /\ UNCHANGED <<zvars, shiftreg>>

NextHall ==
    \/ MainInitHallSensor
    \/ CallReadHallSensor
    \/ CallReadCornerHallSensor
    \/ SampleHall
    \/ ReturnHall

InitHall ==
    /\ NoCall
    /\ shiftreg = PowerOnShiftReg
    /\ hall \in BootHall

SpecHall == InitHall /\ [][NextHall]_vars

\* every value HALL_ADC.read_u16() can return
AdcRange == 0 .. 65535

SampleHallAny ==
    /\ hall.pc = "settle"
    /\ \E v \in AdcRange : hall' = HallSample(hall, v)
    /\ UNCHANGED <<zvars, shiftreg>>

NextAdc ==
    \/ CallReadCornerHallSensor
    \/ SampleHallAny
    \/ ReturnHall

InitAdc == NoCall /\ HardwareReady

\* the corner readers over the whole range of the ADC
SpecAdc == InitAdc /\ [][NextAdc]_vars

-----------------------------------------------------------------------------
(* Vocabulary of the properties.                                           *)

InAttempt == pc \in {"check_timeout", "pulse", "read", "is_at_peak", "back_off"}

CallEnded == pc \in {"raised", "returned"}

\* the attempt that last_n_measurements and inserted belong to (0: none yet)
WindowAttempt == IF InAttempt THEN idx ELSE idx - 1

\* the last n elements of s
LastN(s, n) == IF Len(s) <= n THEN s ELSE SubSeq(s, Len(s) - n + 1, Len(s))

\* the last evaluation of is_at_peak was made on the current window
Evaluated == WindowAttempt >= 1 /\ pc # "is_at_peak" /\ inserted # <<>>

-----------------------------------------------------------------------------
\* C1: whenever is_at_peak is evaluated (and in every other state) the window
\* holds at most min_sample_count entries, and it equals the last
\* min_sample_count valid samples in arrival order: eviction is oldest-first.
C1_WindowIsLastValidSamples ==
    /\ Len(last_n_measurements) <= min_sample_count
    /\ last_n_measurements = LastN(inserted, min_sample_count)

\* a valid sample arrived at a full window and is_at_peak is about to run
C1_Witness ==
    /\ pc = "is_at_peak"
    /\ min_sample_count >= 2
    /\ Len(inserted) > min_sample_count
    /\ Len(last_n_measurements) = min_sample_count
    /\ inserted[1] # inserted[Len(inserted)]

\* C2: is_at_peak returns true iff the window holds exactly min_sample_count
\* samples and the one at index min_sample_count // 2 is >= every sample.
C2_PeakIffCentreIsMaximum ==
    Evaluated =>
        (at_peak <=>
            /\ Len(last_n_measurements) = min_sample_count
            /\ \A i \in 1 .. Len(last_n_measurements) :
                   last_n_measurements[(min_sample_count \div 2) + 1]
                       >= last_n_measurements[i])

\* a peak reported on a tie between the centre and another sample
C2_Witness ==
    /\ pc = "back_off"
    /\ at_peak
    /\ min_sample_count = 3
    /\ last_n_measurements[2] = last_n_measurements[3]
    /\ last_n_measurements[1] < last_n_measurements[2]

\* C3: as long as fewer than min_sample_count valid samples were inserted in
\* the attempt, is_at_peak is false, no reverse pulse is issued and the corner
\* is not homed.
C3_NoPeakBeforeWindowFull ==
    (WindowAttempt >= 1 /\ Len(inserted) < min_sample_count) =>
        /\ ~at_peak
        /\ pc # "back_off"
        /\ rev[WindowAttempt] = 0
        /\ outcome[WindowAttempt] # "homed"

\* is_at_peak has run on a window one sample short of full
C3_Witness ==
    /\ Evaluated
    /\ pc = "check_timeout"
    /\ min_sample_count >= 2
    /\ Len(inserted) = min_sample_count - 1
    /\ ~at_peak

\* C4: with min_sample_count = 9 and valid samples strictly increasing over
\* forward steps 1..20 and strictly decreasing from step 21 on, is_at_peak
\* first becomes true after forward step 24, exactly 4 reverse pulses follow
\* and the net position is 20; the attempt does not time out.
C4_TrianglePeakAtStep24 ==
    \A k \in Attempts :
        wave[k] = "triangle" =>
            /\ fwd[k] <= 24
            /\ rev[k] <= 4
            /\ (k = WindowAttempt /\ (at_peak \/ pc = "back_off")) => fwd[k] = 24
            /\ rev[k] > 0 => fwd[k] = 24
            /\ outcome[k] # "timedout"
            /\ outcome[k] = "homed" =>
                   /\ fwd[k] = 24
                   /\ rev[k] = 4
                   /\ fwd[k] - rev[k] = 20

\* a triangular corner was homed
C4_Witness ==
    \E k \in Attempts :
        /\ wave[k] = "triangle"
        /\ min_sample_count = 9
        /\ outcome[k] = "homed"
        /\ fwd[k] - rev[k] = 20

\* samples the attempt k has read so far
ReadsOf(k) == IF k = idx /\ pc = "read" THEN fwd[k] - 1 ELSE fwd[k]

\* every sample the attempt k has read was below min_valid_value
AllBelow(k) == below[k] = ReadsOf(k)

Elements(s) == {s[i] : i \in DOMAIN s}

C6_ContinueOnFailure ==
    (Len(corner_numbers) = 2 /\ wave = <<"invalid", "triangle">>) =>
        /\ outcome[1] = "pending" => (fwd[2] = 0 /\ rev[2] = 0)
        /\ outcome[1] # "homed"
        /\ (outcome[1] = "timedout" /\ outcome[2] = "pending") =>
              (raised = 0 /\ ~CallEnded)
        /\ CallEnded =>
              /\ outcome = <<"timedout", "homed">>
              /\ fwd[2] > 0
              /\ at_peak
              /\ Len(last_n_measurements) = min_sample_count
              /\ rev[2] = min_sample_count \div 2
              /\ pc = "raised"
              /\ corner_numbers[1] \in Elements(failed_corners)
              /\ corner_numbers[1] # corner_numbers[2] =>
                     corner_numbers[2] \notin Elements(failed_corners)

\* A timed out, B was homed afterwards, the call raised for A alone
C6_Witness ==
    /\ pc = "raised"
    /\ wave = <<"invalid", "triangle">>
    /\ corner_numbers[1] # corner_numbers[2]
    /\ outcome = <<"timedout", "homed">>
    /\ failed_corners = <<corner_numbers[1]>>
    /\ rev[2] = 4

\* the corners of the attempts 1..k that ended by timeout, in order
RECURSIVE TimedOutCorners(_)
TimedOutCorners(k) ==
    IF k = 0 THEN <<>>
    ELSE IF outcome[k] = "timedout"
         THEN Append(TimedOutCorners(k - 1), corner_numbers[k])
         ELSE TimedOutCorners(k - 1)

\* C7: the RuntimeError is raised at most once and only after the loop over
\* all corners; it is raised iff some attempt ended by timeout; the list is
\* exactly the corners whose attempts timed out; every other attempt ended
\* with a detected peak followed by its back-off pulses.
C7_RaiseOnceAfterAllCorners ==
    /\ raised <= 1
    /\ raised = 1 =>
          /\ pc = "raised"
          /\ idx > Len(corner_numbers)
          /\ \A k \in Attempts : outcome[k] # "pending"
    /\ failed_corners = TimedOutCorners(Len(corner_numbers))
    /\ CallEnded =>
          /\ pc = "raised" <=> raised = 1
          /\ pc = "raised" <=> \E k \in Attempts : outcome[k] = "timedout"
          /\ \A k \in Attempts :
                outcome[k] # "timedout" =>
                    /\ outcome[k] = "homed"
                    /\ fwd[k] >= min_sample_count
                    /\ rev[k] = min_sample_count \div 2

\* a call that raised for one corner after homing the other
C7_Witness ==
    /\ pc = "raised"
    /\ raised = 1
    /\ outcome = <<"timedout", "homed">>
    /\ rev[2] >= 1

\* C8: in the failure report of one call a corner ID appears at most once,
\* for every non-empty sequence of corner IDs from 0..3.
C8_NoCornerReportedTwice ==
    \A i, j \in DOMAIN failed_corners :
        failed_corners[i] = failed_corners[j] => i = j

StrictlyIncreasing(s) == \A i \in 1 .. Len(s) - 1 : s[i] < s[i + 1]

\* C9 as stated: a strictly increasing stream of valid samples never makes
\* is_at_peak true, for every min_sample_count >= 1.
C9_IncreasingNeverPeaks ==
    (WindowAttempt >= 1 /\ min_sample_count >= 1 /\ StrictlyIncreasing(inserted)) =>
        /\ ~at_peak
        /\ pc # "back_off"
        /\ outcome[WindowAttempt] # "homed"

\* C9 amended: a strictly increasing stream of valid samples never makes
\* is_at_peak true when min_sample_count >= 3 (a sample follows the centre of
\* the window); such a corner can only end by timeout.
C9_IncreasingNeverPeaksFrom3 ==
    (WindowAttempt >= 1 /\ min_sample_count >= 3 /\ StrictlyIncreasing(inserted)) =>
        /\ ~at_peak
        /\ pc # "back_off"
        /\ outcome[WindowAttempt] # "homed"

\* an attempt whose window of 3 slid over 4 increasing samples timed out
C9_Witness ==
    /\ WindowAttempt >= 1
    /\ min_sample_count = 3
    /\ Len(inserted) = 4
    /\ StrictlyIncreasing(inserted)
    /\ outcome[WindowAttempt] = "timedout"

Flat(s) == \A i \in 1 .. Len(s) : s[i] = s[1]

\* C10: under a flat waveform is_at_peak becomes true at the first evaluation
\* with min_sample_count samples in the window, after exactly min_sample_count
\* forward pulses when all samples are valid; exactly min_sample_count // 2
\* reverse pulses follow and no further pulse for that attempt.
C10_FlatPeaksWhenWindowFills ==
    (WindowAttempt >= 1 /\ Flat(inserted)) =>
        LET k == WindowAttempt
        IN  /\ (Evaluated /\ Len(inserted) >= min_sample_count) => at_peak
            /\ Len(inserted) <= min_sample_count
            /\ (at_peak /\ below[k] = 0) => fwd[k] = min_sample_count
            /\ at_peak => fwd[k] = Len(inserted) + below[k]
            /\ rev[k] <= min_sample_count \div 2
            /\ outcome[k] = "homed" => rev[k] = min_sample_count \div 2

\* a flat attempt of three valid samples was homed with one reverse pulse
C10_Witness ==
    /\ WindowAttempt >= 1
    /\ min_sample_count = 3
    /\ Flat(inserted)
    /\ below[WindowAttempt] = 0
    /\ fwd[WindowAttempt] = 3
    /\ rev[WindowAttempt] = 1
    /\ outcome[WindowAttempt] = "homed"


-----------------------------------------------------------------------------
(* The order of the operations.                                            *)

\* the fields of a log entry
LogAttempt(e) == e[1]
LogOp(e) == e[2]
LogTarget(e) == e[3]
LogPulseMs(e) == e[4]
LogSettleMs(e) == e[5]

\* the operations of attempt a, in order
AttemptLog(a) == SelectSeq(log, LAMBDA e : LogAttempt(e) = a)

\* C11: corners are processed strictly in the order of the argument and never
\* interleaved.  Every command and every sensor read carries the attempt in
\* which it was issued; each one targets the corner of its attempt (a read
\* the hall channel of that corner, corner + 8), the attempts of the log
\* never decrease, so all operations of corner_numbers[i] come before all
\* operations of corner_numbers[i + 1], and the hardware was last addressed
\* for the targets the log ends with.
C11_CornersInOrderNotInterleaved ==
    /\ \A i \in DOMAIN log :
          /\ LogAttempt(log[i]) \in Attempts
          /\ LogOp(log[i]) \in {"stop", "fwd", "rev"}
                => LogTarget(log[i]) = corner_numbers[LogAttempt(log[i])]
          /\ LogOp(log[i]) = "read"
                => LogTarget(log[i]) = corner_numbers[LogAttempt(log[i])] + 8
          /\ i > 1 => LogAttempt(log[i - 1]) <= LogAttempt(log[i])
    /\ InAttempt => log # <<>> /\ LogAttempt(log[Len(log)]) = idx
    /\ \A i \in DOMAIN log :
          /\ (/\ LogOp(log[i]) # "read"
              /\ \A j \in i + 1 .. Len(log) : LogOp(log[j]) = "read")
                => shiftreg.corner = LogTarget(log[i])
          /\ (/\ LogOp(log[i]) = "read"
              /\ \A j \in i + 1 .. Len(log) : LogOp(log[j]) # "read")
                => hall.sensor_num = LogTarget(log[i])

\* both corners of a two-corner call were driven and read, the first one
\* homed with a back-off, and the call has ended
C11_Witness ==
    /\ CallEnded
    /\ Len(corner_numbers) = 2
    /\ corner_numbers[1] # corner_numbers[2]
    /\ \E i, j, k \in DOMAIN log :
          /\ i < j /\ j < k
          /\ log[i] = LogPulse(1, -1, corner_numbers[1], PULSE_MS, SETTLE_MS)
          /\ log[j] = LogPulse(2, 1, corner_numbers[2], PULSE_MS, SETTLE_MS)
          /\ log[k] = LogRead(2, corner_numbers[2] + 8)

-----------------------------------------------------------------------------
(* The position after the back-off.                                        *)

\* the forward step at which the centre of the window was read
CentreStep == LastN(read_at, min_sample_count)[(Len(last_n_measurements) \div 2) + 1]

\* C12: when the window reports a peak, its centre sample was taken exactly
\* min_sample_count // 2 forward steps before the current position, and after
\* the back-off the net position (forward pulses minus reverse pulses) is the
\* step at which the centre sample was read, for every min_sample_count and
\* every mix of valid and discarded samples.
C12_BackOffReturnsToCentre ==
    /\ (pc = "back_off" /\ at_peak)
          => fwd[idx] - CentreStep = min_sample_count \div 2
    /\ (pc \in {"for_corner", "raised", "returned"} /\ WindowAttempt >= 1
          /\ outcome[WindowAttempt] = "homed")
          => fwd[WindowAttempt] - rev[WindowAttempt] = CentreStep

-----------------------------------------------------------------------------
(* The latency of a call.                                                  *)

Max(a, b) == IF a >= b THEN a ELSE b

\* the time the call has taken so far, on the clock of the timeout
Latency == now - call_start

\* C13: the total latency of one call, on the clock that time.ticks_ms
\* counts, never exceeds len(corners) * timeout_per_motor_ms: at no moment has
\* a call, running or over, lasted longer than that.
C13_LatencyWithinBudget ==
    Latency <= Len(corner_numbers) * timeout_per_motor_ms

\* what the loop keeps to while time.ticks_ms does not wrap during an attempt:
\* the timeout is tested only at the top of an iteration, so an attempt may run
\* one whole iteration (a forward pulse and a sensor read) past its budget, and
\* then still sends the final Stop or the min_sample_count // 2 back-off
\* pulses.  It holds of the calls made at tick 0 and fails of the calls made
\* shortly before the wrap.
LatencyWithinOvershoot ==
    LET iteration == PulseCornerMotorMs + overhead_ms + HALL_SETTLE_MS
        ending == Max(SetShiftRegistersMs,
                      (min_sample_count \div 2) * (PulseCornerMotorMs + overhead_ms))
    IN  /\ Latency <= WindowAttempt * (timeout_per_motor_ms + iteration + ending)
        /\ CallEnded => WindowAttempt = Len(corner_numbers)

-----------------------------------------------------------------------------
(* The multiplexer select lines.                                           *)

\* C14: every sensor read returns with the select lines back on the default
\* channel 15, all four select pins high, whatever channel it had selected;
\* once init_hall_sensor has run, the selection is channel 15 whenever no
\* read is in progress.  While a read is in progress the pins address the
\* channel that was asked for.
C14_MuxRestoredToChannel15 ==
    /\ HallIdle(hall) =>
          /\ hall.select = <<1, 1, 1, 1>>
          /\ MuxChannel(hall.select) = 15
    /\ hall.pc \in {"settle", "restore"} => MuxChannel(hall.select) = hall.sensor_num

\* a read of channel 8 (the pins were 0, 0, 0, 1) has returned
C14_Witness ==
    /\ hall.pc = "idle"
    /\ hall.sensor_num = 8
    /\ hall.select = <<1, 1, 1, 1>>

-----------------------------------------------------------------------------
(* The latch of set_corner_motor_state.                                    *)

\* C15: set_corner_motor_state(corner, state) returns only after the latch
\* (RCLK) pulse that follows all 16 shifted bits: there is no latch pulse
\* before the sixteenth shift clock, and at the return there were sixteen
\* shift clocks and then one latch pulse.  In the latched data both drive
\* lines of the corner (bits 8 + 2 * corner and 9 + 2 * corner) are off with
\* state 0, only the first is on with state 1, only the second with state -1.
C15_LatchedAfterAllBits ==
    /\ ShiftRunning(shiftreg) /\ shiftreg.pc # "latch_low" =>
          /\ shiftreg.rclk_pulses = 0
          /\ shiftreg.rclk = 0
    /\ shiftreg.pc = "latch_high" => shiftreg.srck_pulses = 16
    /\ shiftreg.pc = "returned" =>
          /\ shiftreg.srck_pulses = 16
          /\ shiftreg.rclk_pulses = 1
          /\ shiftreg.shifted_at_latch = 16
          /\ shiftreg.rclk = 0
          /\ LET first == shiftreg.outputs[8 + 2 * shiftreg.corner + 1]
                 second == shiftreg.outputs[9 + 2 * shiftreg.corner + 1]
             IN  /\ shiftreg.state = 0 => first = 0 /\ second = 0
                 /\ shiftreg.state = 1 => first = 1 /\ second = 0
                 /\ shiftreg.state = -1 => first = 0 /\ second = 1

\* set_corner_motor_state(3, -1) has returned with bit 15 latched on
C15_Witness ==
    /\ shiftreg.pc = "returned"
    /\ shiftreg.corner = 3
    /\ shiftreg.state = -1
    /\ shiftreg.rclk_pulses = 1
    /\ shiftreg.outputs[16] = 1

-----------------------------------------------------------------------------
(* The back-off.                                                           *)

\* how many entries of the sequence s are the operation op
RECURSIVE CountOp(_, _)
CountOp(s, op) ==
    IF s = <<>> THEN 0
    ELSE (IF LogOp(Head(s)) = op THEN 1 ELSE 0) + CountOp(Tail(s), op)

\* C16: when a corner's window reports a peak, zero_corner_motors issues
\* exactly min_sample_count // 2 reverse pulses for that corner, each with
\* the pulse and settle durations of a forward pulse, then no further forward
\* pulse and no further sensor read for that attempt, and moves on to the
\* next corner.  Reverse pulses are the last operations of their attempt,
\* they follow the read that filled the window, there are never more than
\* min_sample_count // 2 of them, and exactly that many once the attempt is
\* over.
C16_BackOffThenNextCorner ==
    \A a \in Attempts :
        LET ops == AttemptLog(a)
        IN  /\ \A i \in DOMAIN ops :
                  LogOp(ops[i]) = "rev" =>
                      /\ LogTarget(ops[i]) = corner_numbers[a]
                      /\ i > 1 /\ LogOp(ops[i - 1]) \in {"read", "rev"}
                      /\ \A j \in DOMAIN ops :
                            /\ j > i => LogOp(ops[j]) = "rev"
                            /\ LogOp(ops[j]) = "fwd" =>
                                  /\ LogPulseMs(ops[i]) = LogPulseMs(ops[j])
                                  /\ LogSettleMs(ops[i]) = LogSettleMs(ops[j])
            /\ CountOp(ops, "rev") = rev[a]
            /\ rev[a] <= min_sample_count \div 2
            /\ (a = idx /\ pc = "back_off") => rev[a] = back
            /\ outcome[a] = "homed" =>
                  /\ rev[a] = min_sample_count \div 2
                  /\ idx > a
            /\ (outcome[a] # "homed" /\ ~(a = idx /\ pc = "back_off")) => rev[a] = 0

\* a corner was homed with a back-off, and the next corner has been pulsed
C16_Witness ==
    /\ Len(corner_numbers) = 2
    /\ outcome[1] = "homed"
    /\ min_sample_count >= 2
    /\ rev[1] = min_sample_count \div 2
    /\ fwd[2] > 0

-----------------------------------------------------------------------------
(* The timeout of an attempt.                                              *)

\* the attempt that ended last has timed out and nothing has started since
JustTimedOut ==
    /\ pc \in {"for_corner", "raised", "returned"}
    /\ WindowAttempt >= 1
    /\ outcome[WindowAttempt] = "timedout"

\* C17: when the timeout check at the top of an iteration finds the elapsed
\* time greater than timeout_per_motor_ms, zero_corner_motors commands Stop
\* for that corner, appends the corner to the failure list, raises nothing
\* at that point and issues no further pulse or sensor read for that attempt:
\* the log of a timed-out attempt ends with its second Stop, right after a
\* sensor read or the first Stop, and has no reverse pulse.  The check had
\* found more than the budget, and no forward pulse starts after a check
\* that found more than the budget.
C17_TimeoutStopsTheAttempt ==
    /\ \A a \in Attempts :
          outcome[a] = "timedout" =>
              LET ops == AttemptLog(a)
              IN  /\ Len(ops) >= 2
                  /\ ops[Len(ops)] = LogStop(a, corner_numbers[a])
                  /\ LogOp(ops[Len(ops) - 1]) \in {"read", "stop"}
                  /\ CountOp(ops, "stop") = 2
                  /\ CountOp(ops, "rev") = 0
                  /\ CountOp(ops, "fwd") = CountOp(ops, "read")
                  /\ idx > a
                  /\ \E i \in DOMAIN failed_corners : failed_corners[i] = corner_numbers[a]
    /\ Len(failed_corners) = Cardinality({a \in Attempts : outcome[a] = "timedout"})
    /\ (raised > 0 \/ pc = "raised") => idx > Len(corner_numbers)
    /\ JustTimedOut => now - SetShiftRegistersMs - start > timeout_per_motor_ms
    /\ pc \in {"pulse", "read"} => outcome[idx] = "pending"
    /\ pc = "pulse" => now - start <= timeout_per_motor_ms

\* the first of two corners has timed out after some forward pulses and the
\* second is being pulsed; nothing was raised
C17_Witness ==
    /\ Len(corner_numbers) = 2
    /\ outcome[1] = "timedout"
    /\ fwd[1] >= 3
    /\ failed_corners = <<corner_numbers[1]>>
    /\ pc = "read"
    /\ idx = 2
    /\ raised = 0

-----------------------------------------------------------------------------
(* Invalid samples.                                                        *)

\* zero_corner_motors is one thread that never waits for anything but its
\* sleeps: while a step is possible, one is taken
SpecFair == Init /\ [][Next]_vars /\ WF_vars(Next)

\* attempt a is running and every sample it has read was below min_valid_value
OnlyInvalidSoFar(a) == a \in Attempts /\ idx = a /\ InAttempt /\ AllBelow(a)

\* attempt a has read a valid sample, or has ended by timeout
ValidOrTimedOut(a) == a \in Attempts /\ (~AllBelow(a) \/ outcome[a] = "timedout")

-----------------------------------------------------------------------------
(* The attempts of a call.                                                 *)

\* the for loop has reached attempt a (also when its first command raised)
AttemptBegun(a) == a < idx \/ (a = idx /\ (InAttempt \/ pc = "value_error"))

\* C19: per corner the attempt follows Idle -> Sampling -> {Homed | TimedOut}.
\* An attempt the loop has not reached is Idle and has no operation, the
\* running attempt is Sampling, every attempt the loop has left is in exactly
\* one of the two terminal states; and within one call no corner ID is
\* attempted again after its attempt reached a terminal state, for every
\* admissible corners argument.
C19_AttemptsEndOnceNoCornerAgain ==
    /\ \A a \in Attempts :
          /\ ~AttemptBegun(a) => outcome[a] = "pending" /\ AttemptLog(a) = <<>>
          /\ (a = idx /\ InAttempt) => outcome[a] = "pending"
          /\ (AttemptBegun(a) /\ ~(a = idx /\ InAttempt))
                => outcome[a] \in {"homed", "timedout"}
    /\ \A a, b \in Attempts :
          (a < b /\ outcome[a] \in {"homed", "timedout"} /\ AttemptBegun(b))
              => corner_numbers[a] # corner_numbers[b]

-----------------------------------------------------------------------------
(* The window and the start timestamp belong to one attempt.               *)

\* the time an operation of the log takes
OpMs(e) ==
    CASE LogOp(e) = "stop" -> SetShiftRegistersMs
      [] LogOp(e) \in {"fwd", "rev"} -> PulseCornerMotorMs + overhead_ms
      [] LogOp(e) = "read" -> HALL_SETTLE_MS

RECURSIVE SumMs(_)
SumMs(s) == IF s = <<>> THEN 0 ELSE OpMs(Head(s)) + SumMs(Tail(s))

\* the operations of the attempts before attempt a
EarlierLog(a) == SelectSeq(log, LAMBDA e : LogAttempt(e) < a)

\* C20: each attempt starts with an empty window and its own start
\* timestamp.  The window never holds more samples than the attempt itself
\* has read and kept, and is the tail of the valid samples of this attempt,
\* so no sample of another corner is in it or in its peak decision; start is
\* the time at which the earlier attempts were over, so the elapsed time that
\* is compared with timeout_per_motor_ms is the time of this attempt's own
\* operations.
C20_WindowAndStartPerAttempt ==
    InAttempt =>
        /\ start - call_start = SumMs(EarlierLog(idx))
        /\ now - start = SumMs(AttemptLog(idx))
        /\ Len(last_n_measurements)
              <= CountOp(AttemptLog(idx), "read") - below[idx]
        /\ last_n_measurements = LastN(inserted, min_sample_count)
        /\ Len(AttemptLog(idx)) = 1 =>
              /\ last_n_measurements = <<>>
              /\ now - start = SetShiftRegistersMs
        /\ pc = "back_off" => is_at_peak(LastN(inserted, min_sample_count), min_sample_count)

\* the second corner's attempt has just begun, after a first attempt that
\* left a full window and took time
C20_Witness ==
    /\ idx = 2
    /\ pc = "check_timeout"
    /\ fwd[2] = 0
    /\ fwd[1] >= 3
    /\ outcome[1] = "homed"
    /\ last_n_measurements = <<>>
    /\ start > call_start + timeout_per_motor_ms

-----------------------------------------------------------------------------
(* The first command of an attempt.                                        *)

\* C21: for every corner's attempt the first actuation command sent for that
\* corner is Stop, and it is sent before the first forward pulse and before
\* the first sensor read of that attempt: the log of every attempt that has
\* begun starts with the Stop of its corner, and every pulse and every read
\* of the attempt comes later in the log.
C21_StopIsFirstCommand ==
    \A a \in Attempts :
        LET ops == AttemptLog(a)
        IN  /\ (AttemptBegun(a) /\ ValidCornerCall(corner_numbers[a], 0)) => ops # <<>>
            /\ ops # <<>> => ops[1] = LogStop(a, corner_numbers[a])
            /\ \A i \in DOMAIN ops :
                  LogOp(ops[i]) \in {"fwd", "rev", "read"} => i > 1
            /\ (fwd[a] > 0 \/ rev[a] > 0) => (ops # <<>> /\ LogOp(ops[1]) = "stop")

\* the second corner of a call has been stopped, pulsed and read
C21_Witness ==
    /\ idx = 2
    /\ InAttempt
    /\ Len(AttemptLog(2)) >= 3
    /\ AttemptLog(2)[1] = LogStop(2, corner_numbers[2])
    /\ LogOp(AttemptLog(2)[2]) = "fwd"
    /\ LogOp(AttemptLog(2)[3]) = "read"

-----------------------------------------------------------------------------
(* The end of a pulse.                                                     *)

\* the latched outputs that are on
OutputsOn(s) == {k \in 1 .. OutputCount : s.outputs[k] = 1}

\* C22: pulse_corner_motor always ends with the corner commanded to Stop,
\* followed by the settle delay.  Between the operations of
\* zero_corner_motors no drive line is on: the last command that was latched
\* is a Stop and no command of a pulse is pending, so every sensor read
\* happens with all drive lines off and no pulse runs across a read or
\* across the switch to the next corner; every pulse of the log was given a
\* settle time.
C22_PulseEndsStopped ==
    /\ OutputsOn(shiftreg) \cap (9 .. 16) = {}
    /\ shiftreg.pending = <<>>
    /\ log # <<>> =>
          /\ shiftreg.pc = "returned"
          /\ shiftreg.state = 0
          /\ OutputsOn(shiftreg) = {}
    /\ \A i \in DOMAIN log :
          LogOp(log[i]) \in {"fwd", "rev"} =>
              /\ LogSettleMs(log[i]) = SETTLE_MS
              /\ LogSettleMs(log[i]) > 0

\* a sensor read is about to happen after a forward pulse, and an earlier
\* corner was left after its back-off pulses
C22_Witness ==
    /\ pc = "read"
    /\ idx = 2
    /\ rev[1] >= 1
    /\ LogOp(log[Len(log)]) = "fwd"
    /\ OutputsOn(shiftreg) = {}

-----------------------------------------------------------------------------
(* The value of a corner read.                                             *)

\* C23: for every 16-bit ADC value v in 0..65535 read_hall_sensor_abs_u16
\* returns |32768 - v|, which is never negative and never greater than
\* 32768, and read_corner_hall_sensor_abs_u16(corner) reads multiplexer
\* channel corner + 8 for corner in 0..3.
C23_AbsValueAndChannel ==
    /\ hall.pc \in {"settle", "restore"} =>
          /\ hall.corner \in 0 .. 3
          /\ hall.sensor_num = hall.corner + 8
          /\ MuxChannel(hall.select) = hall.corner + 8
    /\ hall.pc = "restore" =>
          LET v == hall.val
              r == read_hall_sensor_abs_u16(v)
          IN  /\ v \in 0 .. 65535
              /\ r = IF v <= 32768 THEN 32768 - v ELSE v - 32768
              /\ r >= 0
              /\ r <= 32768

\* corner 3 was read on channel 11 and the ADC gave its largest value
C23_Witness ==
    /\ hall.pc = "restore"
    /\ hall.corner = 3
    /\ MuxChannel(hall.select) = 11
    /\ hall.val = 65535
    /\ read_hall_sensor_abs_u16(hall.val) = 32767

-----------------------------------------------------------------------------
(* The timeout across a wrap of the tick counter.                          *)

\* the time the running attempt has taken: the time of its operations
AttemptMs == SumMs(AttemptLog(idx))

\* C24: a corner that never reports a peak is recorded as timed out no later
\* than one loop iteration after timeout_per_motor_ms has elapsed, also when
\* the tick counter wraps during the attempt: an iteration only starts while
\* the attempt has taken no more than the budget, and a sampling attempt has
\* never taken more than the budget and one iteration.
C24_TimedOutWithinOneIteration ==
    /\ pc = "pulse" => AttemptMs <= timeout_per_motor_ms
    /\ pc \in {"check_timeout", "pulse", "read", "is_at_peak"} =>
          AttemptMs <= timeout_per_motor_ms
                          + PulseCornerMotorMs + overhead_ms + HALL_SETTLE_MS

-----------------------------------------------------------------------------
(* The outputs when the call is over.                                      *)

\* C25: when zero_corner_motors finishes a call whose corner IDs are all in
\* 0..3, by returning or by raising the timeout RuntimeError, the last
\* latched state of the shift register has all 16 outputs off: the last
\* set_corner_motor_state has returned, it was a Stop, and no output is on.
C25_AllOutputsOffAtEnd ==
    (CallEnded /\ \A a \in Attempts : corner_numbers[a] \in 0 .. 3) =>
        /\ shiftreg.pc = "returned"
        /\ shiftreg.rclk_pulses = 1
        /\ shiftreg.state = 0
        /\ \A k \in 1 .. 16 : shiftreg.outputs[k] = 0

\* a call has returned after the back-off pulses of its last corner
C25_Witness ==
    /\ pc = "returned"
    /\ rev[Len(corner_numbers)] >= 1
    /\ LogOp(log[Len(log)]) = "rev"
    /\ \A k \in 1 .. 16 : shiftreg.outputs[k] = 0

-----------------------------------------------------------------------------
(* The latched outputs under corner commands.                              *)

\* the outputs a latch of a corner command may leave
OneCornerLineAtMost(s) ==
    /\ Cardinality(OutputsOn(s)) <= 1
    /\ \A k \in 1 .. 8 : s.outputs[k] = 0
    /\ OutputsOn(s) \subseteq {8 + s.corner * 2 + 1, 8 + s.corner * 2 + 2}
    /\ s.state = 0 => OutputsOn(s) = {}
    /\ s.state # 0 => Cardinality(OutputsOn(s)) = 1

\* C26: after any sequence of set_corner_motor_state and pulse_corner_motor
\* calls at most one of the 16 latched outputs is on.  The outputs change
\* only at the rising edge of the latch, and every latch of a corner command
\* leaves at most one output on: never the two drive lines of a corner
\* together, never the lines of two corners, never a stepper-select bit
\* 0..7, whatever the register held before the call.
C26_AtMostOneOutputOn ==
    [][/\ shiftreg'.outputs # shiftreg.outputs =>
              (shiftreg.rclk = 0 /\ shiftreg'.rclk = 1)
       /\ (shiftreg.rclk = 0 /\ shiftreg'.rclk = 1) =>
              OneCornerLineAtMost(shiftreg')]_vars

\* between the two commands of a Retract pulse of corner 3 only its Retract
\* line is on
C26_Witness ==
    /\ shiftreg.pc = "returned"
    /\ shiftreg.corner = 3
    /\ shiftreg.state = -1
    /\ shiftreg.pending = <<0>>
    /\ OutputsOn(shiftreg) = {16}

-----------------------------------------------------------------------------
(* The strict comparisons of the loop.                                     *)

\* C27: the timeout is checked only at the top of an iteration and with
\* strict comparisons.  A check that finds the elapsed time equal to
\* timeout_per_motor_ms goes on to the pulse; the failure list grows only at
\* a check that finds more than the budget.  A sample equal to
\* min_valid_value is inserted into the window.  A peak found in an
\* iteration that started within budget always leads to the back-off pulses
\* and to the corner being homed: the back-off steps add nothing to the
\* failure list, however late they are.
C27_StrictComparisons ==
    /\ [][(pc = "check_timeout" /\ now - start = timeout_per_motor_ms) =>
              (pc' = "pulse" /\ failed_corners' = failed_corners)]_vars
    /\ [][failed_corners' # failed_corners =>
              /\ pc = "check_timeout"
              /\ now - start > timeout_per_motor_ms
              /\ failed_corners' = Append(failed_corners, corner_num)]_vars
    /\ [][pc = "read" =>
              IF below' = below
              THEN /\ pc' = "is_at_peak"
                   /\ inserted'[Len(inserted')] >= min_valid_value
                   /\ last_n_measurements'[Len(last_n_measurements')]
                          = inserted'[Len(inserted')]
              ELSE pc' = "check_timeout"]_vars
    /\ [](\A i \in DOMAIN inserted : inserted[i] >= min_valid_value)
    /\ [][(pc = "is_at_peak" /\ at_peak') => pc' = "back_off"]_vars
    /\ [][pc = "back_off" =>
              /\ pc' = "back_off" \/ (pc' = "for_corner" /\ outcome'[idx] = "homed")
              /\ failed_corners' = failed_corners]_vars
    /\ [](\A a \in Attempts : outcome[a] = "homed" => rev[a] + fwd[a] >= 1)

\* a corner has been homed although its budget ran out: the fourth check
\* found exactly the budget, the pulse went ahead, a sample equal to
\* min_valid_value is in the window, and the peak came after the budget
C27_Witness ==
    /\ pc = "for_corner"
    /\ idx = 2
    /\ outcome[1] = "homed"
    /\ fwd[1] = 4
    /\ overhead_ms = 0
    /\ timeout_per_motor_ms = 110
    /\ now - start > timeout_per_motor_ms
    /\ \E i \in DOMAIN last_n_measurements :
           last_n_measurements[i] = min_valid_value
    /\ failed_corners = <<>>

-----------------------------------------------------------------------------
(* Corner IDs outside 0..3.                                                *)

\* corner lists with an ID outside 0..3: alone, first, last, in the middle;
\* and one list without
InvalidCornerLists == {<<4>>, <<-1, 0>>, <<1, 4>>, <<0, 5, 2>>, <<1, 2>>}

InitInvalid ==
    /\ InitCall(InvalidCornerLists, {110}, {1000}, {1, 3}, {"free"}, {NoWave}, {0})
    /\ HardwareReady

SpecInvalid == InitInvalid /\ [][Next]_vars

\* the attempts whose corner ID set_corner_motor_state rejects
InvalidAttempts == {a \in Attempts : corner_numbers[a] < 0 \/ corner_numbers[a] > 3}

\* C28: if the corners list contains an ID outside 0..3, zero_corner_motors
\* raises ValueError at that corner's initial Stop command, before any pulse
\* or sensor read for it: nothing of that attempt is in the log and no pin
\* of the shift register has moved for it.  The corners after it are never
\* attempted, and the call never gets to report the timeouts recorded for
\* the corners before it: no RuntimeError is raised and the call does not
\* return.
C28_InvalidCornerRaisesValueError ==
    /\ \A a \in InvalidAttempts :
          /\ idx <= a
          /\ idx = a => pc \in {"for_corner", "value_error"}
          /\ \A b \in a .. Len(corner_numbers) :
                /\ AttemptLog(b) = <<>>
                /\ fwd[b] = 0
                /\ rev[b] = 0
                /\ below[b] = 0
                /\ outcome[b] = "pending"
    /\ InvalidAttempts # {} => (~CallEnded /\ raised = 0)
    /\ pc = "value_error" =>
          /\ idx \in InvalidAttempts
          /\ shiftreg.pc = "value_error"
          /\ shiftreg.corner = corner_num
          /\ Len(log) >= 1 => LogAttempt(log[Len(log)]) = idx - 1
          /\ Len(failed_corners)
                 = Cardinality({a \in 1 .. idx - 1 : outcome[a] = "timedout"})
    /\ InAttempt => idx \notin InvalidAttempts

\* ValueError at the second of three corners, after the first has timed out
C28_Witness ==
    /\ pc = "value_error"
    /\ corner_numbers = <<0, 5, 2>>
    /\ idx = 2
    /\ failed_corners = <<0>>
    /\ raised = 0

-----------------------------------------------------------------------------
(* The pin sequence of set_shift_registers.                                *)

\* the five lines of the shift register: serial in, shift clock, latch, and
\* what the stages and the outputs hold
ShiftPins(s) == <<s.ser_in, s.srck, s.rclk, s.stages, s.outputs>>

\* the level that a list entry puts on the serial line
BitLevel(b) == IF b THEN 1 ELSE 0

\* C29: set_shift_registers raises ValueError without changing any pin when
\* its data does not have exactly 16 entries.  Otherwise it sets the serial
\* line to data[15], data[14], ..., data[0] in that order, each before the
\* rising edge of its shift clock (the n-th rising edge shifts in
\* data[16 - n]); it emits exactly 16 shift clocks, then exactly one latch
\* pulse after the last of them, the outputs then hold data[0..15], and the
\* shift clock and the latch are low at the return.
C29_ShiftSequence ==
    /\ [][shiftreg'.pc = "value_error" => ShiftPins(shiftreg') = ShiftPins(shiftreg)]_vars
    /\ [][(~ShiftRunning(shiftreg) /\ ShiftRunning(shiftreg')) =>
              /\ Len(shiftreg'.data) = 16
              /\ ShiftPins(shiftreg') = ShiftPins(shiftreg)]_vars
    /\ [][shiftreg'.ser_in # shiftreg.ser_in => shiftreg.pc = "set_bit"]_vars
    /\ [][shiftreg'.srck # shiftreg.srck => shiftreg.pc \in {"clock_high", "clock_low"}]_vars
    /\ [][shiftreg'.rclk # shiftreg.rclk => shiftreg.pc \in {"latch_high", "latch_low"}]_vars
    /\ [](ShiftRunning(shiftreg) => Len(shiftreg.data) = 16)
    /\ [](shiftreg.pc = "set_bit" =>
              /\ shiftreg.srck = 0
              /\ shiftreg.srck_pulses = shiftreg.i - 1)
    /\ [](shiftreg.pc = "clock_high" =>
              /\ shiftreg.srck = 0
              /\ shiftreg.srck_pulses = shiftreg.i - 1
              /\ shiftreg.ser_in = BitLevel(shiftreg.data[16 - shiftreg.i + 1]))
    /\ [](shiftreg.pc = "clock_low" =>
              /\ shiftreg.srck = 1
              /\ shiftreg.srck_pulses = shiftreg.i
              /\ shiftreg.stages[1] = BitLevel(shiftreg.data[16 - shiftreg.i + 1]))
    /\ [](shiftreg.pc \in {"set_bit", "clock_high", "clock_low", "latch_high"} =>
              /\ shiftreg.rclk = 0
              /\ shiftreg.rclk_pulses = 0)
    /\ [](shiftreg.pc = "latch_high" =>
              /\ shiftreg.srck = 0
              /\ shiftreg.srck_pulses = 16)
    /\ [](shiftreg.pc = "latch_low" =>
              /\ shiftreg.rclk = 1
              /\ shiftreg.srck = 0
              /\ shiftreg.srck_pulses = 16
              /\ shiftreg.rclk_pulses = 1)
    /\ [](shiftreg.pc = "returned" =>
              /\ shiftreg.srck = 0
              /\ shiftreg.rclk = 0
              /\ shiftreg.srck_pulses = 16
              /\ shiftreg.rclk_pulses = 1
              /\ shiftreg.shifted_at_latch = 16
              /\ \A k \in 1 .. 16 : shiftreg.outputs[k] = BitLevel(shiftreg.data[k]))

\* set_shift_registers has returned after shifting in and latching the list
\* with the bits 0..7 on
C29_Witness ==
    /\ shiftreg.pc = "returned"
    /\ shiftreg.data = [k \in 1 .. OutputCount |-> k <= 8]
    /\ shiftreg.srck_pulses = 16
    /\ shiftreg.rclk_pulses = 1
    /\ OutputsOn(shiftreg) = 1 .. 8

-----------------------------------------------------------------------------
(* drive_motor, one statement of its loop at a time.                       *)

\* drive_motor(step_period_sec=0.02, step_count=100) of demo_driving_stepper_motor
DemoStepCount == 100

\* drive_motor(step_period_sec, step_count) with the default sequence, called
\* directly or by demo_driving_stepper_motor
CallDriveMotor ==
    /\ drive.pc \in {"idle", "returned"}
    /\ \E step_count \in (-MaxSteps .. MaxSteps) \cup {DemoStepCount} :
          drive' = DriveMotorBegin(step_count)
    /\ UNCHANGED nondrive

\* disable_motor(), called directly or by demo_driving_stepper_motor after
\* its drive_motor: one command with step value 0
DisableMotor ==
    /\ drive.pc \in {"idle", "returned"}
    /\ Len(drive.sent) - drive.done_step_count < MaxDirectSends
    /\ drive' = [drive EXCEPT !.sent = Append(@, disable_motor)]
    /\ UNCHANGED nondrive

\* send_drive_command(i2c_addr, trq=, step_value=, i2cbc=, mode=) called on
\* its own
CallSendDriveCommand ==
    /\ drive.pc \in {"idle", "returned"}
    /\ Len(drive.sent) - drive.done_step_count < MaxDirectSends
    /\ \E trq \in {0, 1}, step_value \in {0, 8, 15}, i2cbc \in {0, 1}, mode \in {0, 1} :
          drive' = [drive EXCEPT
                       !.sent = Append(@, send_drive_command(trq, step_value, i2cbc, mode))]
    /\ UNCHANGED nondrive

SendDriveCommand ==
    /\ drive.pc = "send"
    /\ drive' = DriveSend(drive)
    /\ UNCHANGED nondrive

SleepAndCount ==
    /\ drive.pc = "sleep"
    /\ drive' = DriveSleepAndCount(drive)
    /\ UNCHANGED nondrive

\* write_register(address, register, value) called on its own: any byte to
\* the IC1 control register, or a byte to another register of the driver,
\* which leaves the IC1 control register as it is
CallWriteRegister ==
    /\ drive.pc \in {"idle", "returned"}
    /\ Len(drive.sent) - drive.done_step_count < MaxDirectSends
    /\ \E register \in {REGISTER_ADDRESS_IC1_CONTROL, REGISTER_ADDRESS_IC2_CONTROL},
          value \in {0, 1, 133, 255} :
          drive' = IF register = REGISTER_ADDRESS_IC1_CONTROL
                   THEN [drive EXCEPT !.sent = Append(@, value)]
                   ELSE drive
    /\ UNCHANGED nondrive

NextDrive ==
    \/ CallDriveMotor
    \/ DisableMotor
    \/ CallSendDriveCommand
    \/ CallWriteRegister
    \/ SendDriveCommand
    \/ SleepAndCount

InitDrive ==
    /\ NoCall
    /\ HardwareReady

SpecDrive == InitDrive /\ [][NextDrive]_vars

\* the n-th element of the sequence s walked cyclically from its first
Cyclic(s, n) == s[((n - 1) % Len(s)) + 1]

\* the register value that commands the step value v
StepCommand(v) == 128 + 8 * v + 4

\* drive_motor has returned and no command was sent since
DriveMotorReturned ==
    /\ drive.pc = "returned"
    /\ Len(drive.sent) = drive.done_step_count

\* C30: drive_motor sends exactly |step_count| drive commands for every
\* integer step_count, walking HALF_STEP_SEQUENCE cyclically in forward order
\* when step_count >= 0 and in reverse order when step_count < 0, starting
\* from the first element of the chosen order.
C30_SendsAbsStepCount ==
    DriveMotorReturned =>
        /\ Len(drive.sent) = Abs(drive.step_count)
        /\ \A n \in 1 .. Len(drive.sent) :
              drive.sent[n] =
                  StepCommand(IF drive.step_count >= 0
                              THEN Cyclic(HALF_STEP_SEQUENCE, n)
                              ELSE Cyclic(<<10, 2, 6, 4, 5, 1, 9, 8>>, n))

=============================================================================
